---- MODULE Spec2Model ----
(***************************************************************************)
(* dockerhub_top_images.py: the paginated, deduplicating fetch loop        *)
(* (fetch_sorted) driven three times by main, with the response handlers   *)
(* that the browser driver schedules as independent asyncio tasks.         *)
(*                                                                         *)
(* The program runs on one asyncio event loop: code between two awaits is  *)
(* atomic, and other tasks (the on_response handlers) run only while       *)
(* fetch_sorted is suspended at an await (page.goto, asyncio.sleep,        *)
(* page.content, browser.close).                                           *)
(***************************************************************************)
EXTENDS Integers, Sequences, FiniteSets, TLC

(* ------------------------------ bounds --------------------------------- *)
\* largest quota (--top / --latest) tried
MaxQuota == 2
\* response events delivered to the listeners during one run of main
MaxObs == 2
\* last page of a sort order whose load delivers response events
MaxObsPage == 2
\* pages by which a handler can outlive the page it was started on: after
\* more navigations the response body is gone and its resp.json() raises
MaxLag == 1

(* ------------------------- program constants --------------------------- *)
\* while ... page_no <= 50
PageCeiling == 50
\* main calls fetch_sorted three times
NumSorts == 3

SEARCH_JSON_PATTERNS ==
    { <<"api", "search">>,
      <<"api", "content", "v1", "products", "search">>,
      <<"v2", "search", "repositories">>,
      <<"search", "repositories">> }

(* ------------------------------ records -------------------------------- *)
\* RepoRow, reduced to the dedup key (owner, name) and one payload field.
RepoRow(owner, name, pulls) == [owner |-> owner, name |-> name, pulls |-> pulls]

\* The same two repositories as the structured path and as the markup path
\* render them (same key, different pulls text).
NginxJson == RepoRow("library", "nginx", "1,000,000,000")
RedisJson == RepoRow("library", "redis", "500,000,000")
NginxDom  == RepoRow("library", "nginx", "1B+")
RedisDom  == RepoRow("library", "redis", "500M+")

\* key = (r.owner, r.name)
Key(r) == <<r.owner, r.name>>

Keys(rows) == { Key(rows[i]) : i \in 1..Len(rows) }

(* ------------------------------ responses ------------------------------ *)
\* A network response: its address (path segments), its content-type header,
\* whether resp.json() decodes the body (valid) and, when it does, the rows
\* that parse_search_json finds in the decoded payload.
Response(url, ctype, valid, rows) ==
    [url |-> url, ctype |-> ctype, valid |-> valid, rows |-> rows]

Responses ==
    { Response(<<"static", "app.js">>, "application/javascript", FALSE, <<>>),
      Response(<<"api", "search">>, "text/html", TRUE, <<NginxJson>>),
      Response(<<"v2", "search", "repositories">>, "application/json", FALSE, <<>>),
      Response(<<"v2", "search", "repositories">>, "application/json", TRUE,
               <<NginxJson, RedisJson>>) }

\* what parse_from_dom can find in the rendered markup of a page
DomBatches == { <<>>, <<NginxDom>>, <<NginxDom, RedisDom>> }

\* pat in resp.url : pat occurs as a contiguous run of the address
Contains(url, pat) ==
    \E i \in 0..(Len(url) - Len(pat)) :
        \A j \in 1..Len(pat) : url[i + j] = pat[j]

\* "json" in content-type
JsonType(ctype) == ctype \in {"application/json", "application/json; charset=utf-8"}

\* maybe_parse: the rows one response contributes; every failure gives []
maybe_parse(resp) ==
    IF ~(\E pat \in SEARCH_JSON_PATTERNS : Contains(resp.url, pat)) THEN <<>>
    ELSE IF ~JsonType(resp.ctype) THEN <<>>
    ELSE IF ~resp.valid THEN <<>>
    ELSE resp.rows

\* a captured search response that is discarded: no JSON content-type, or
\* a body that resp.json() cannot decode
DecodeFailure(resp) ==
    /\ \E pat \in SEARCH_JSON_PATTERNS : Contains(resp.url, pat)
    /\ ~JsonType(resp.ctype) \/ ~resp.valid

(* ------------------------------ helpers -------------------------------- *)
Min(a, b) == IF a < b THEN a ELSE b

\* Take with the slice one short: out[:n-1]
TakeOneShort(s, k) == SubSeq(s, 1, Min(k - 1, Len(s)))

\* out[:n] for n >= 0
Take(s, k) == SubSeq(s, 1, Min(k, Len(s)))

\* Collect without seen.add(key)
RECURSIVE CollectNoMark(_, _, _, _, _)
CollectNoMark(o, s, b, i, q) ==
    IF i > Len(b) THEN [out |-> o, seen |-> s]
    ELSE IF Key(b[i]) \in s THEN CollectNoMark(o, s, b, i + 1, q)
    ELSE IF Len(o) + 1 >= q
         THEN [out |-> Append(o, b[i]), seen |-> s]
         ELSE CollectNoMark(Append(o, b[i]), s, b, i + 1, q)

\* Collect without "if key in seen: continue"
RECURSIVE CollectNoSkip(_, _, _, _, _)
CollectNoSkip(o, s, b, i, q) ==
    IF i > Len(b) THEN [out |-> o, seen |-> s]
    ELSE IF Len(o) + 1 >= q
         THEN [out |-> Append(o, b[i]), seen |-> s \cup {Key(b[i])}]
         ELSE CollectNoSkip(Append(o, b[i]), s \cup {Key(b[i])}, b, i + 1, q)

\* The "de-dup and collect" loop from index i on: skip seen keys, append the
\* others, and break as soon as the quota q is reached.
RECURSIVE Collect(_, _, _, _, _)
Collect(o, s, b, i, q) ==
    IF i > Len(b) THEN [out |-> o, seen |-> s]
    ELSE IF Key(b[i]) \in s THEN Collect(o, s, b, i + 1, q)
    ELSE IF Len(o) + 1 >= q
         THEN [out |-> Append(o, b[i]), seen |-> s \cup {Key(b[i])}]
         ELSE Collect(Append(o, b[i]), s \cup {Key(b[i])}, b, i + 1, q)

Accumulate(o, s, b, q) == Collect(o, s, b, 1, q)

(* ------------------------------- state --------------------------------- *)
VARIABLES
    top,        \* main's argument: quota of the pulls and stars runs
    latest,     \* main's argument: quota of the updated_at run
    call,       \* number of fetch_sorted calls main has started (0..3)
    pc,         \* position of main / fetch_sorted
    page_no,    \* fetch_sorted.page_no
    out,        \* fetch_sorted.out
    seen,       \* fetch_sorted.seen
    batch,      \* the list the closure variable batch is bound to
    listeners,  \* pages whose on_response closure is registered on the page
    tasks,      \* on_response handlers started and not yet finished
    browser,    \* "none", "open", "closed" (browser.close()) or "stopped"
    results,    \* what the fetch_sorted calls have returned to main
    launches,   \* history: browsers launched during the run
    closes,     \* history: browser.close() calls completed during the run
    fetches,    \* history: page.goto calls of the current fetch_sorted call
    obs,        \* history: response events delivered during the run
    src,        \* history: for each row of batch, how many pages before the
                \*          page being fetched it was observed on (0: on this
                \*          page, in a response or in the markup)
    enc,        \* history: first row met for each key, in the order met, over
                \*          the batches the current call has collected
    decodeFailed, \* history: a handler of the page being fetched got a search
                \*          response without a JSON content-type or body
    input,      \* the extractors taken alone: the payload or markup given
    parsed      \* the extractors taken alone: what the extractor did with it

\* the state of main and fetch_sorted
fetchvars == <<top, latest, call, pc, page_no, out, seen, batch, listeners,
               tasks, browser, results, launches, closes, fetches, obs, src,
               enc, decodeFailed>>

\* the state of an extractor called on its own
parsevars == <<input, parsed>>

vars == <<top, latest, call, pc, page_no, out, seen, batch, listeners, tasks,
          browser, results, launches, closes, fetches, obs, src, enc,
          decodeFailed, input, parsed>>

\* the quota n of the current fetch_sorted call
n == IF call = NumSorts THEN latest ELSE top

\* the awaits of fetch_sorted at which other tasks of the event loop run
Suspended == pc \in {"goto", "sleep", "content", "close"}

\* first row of each key of rows, in order
RECURSIVE FirstSeen(_)
FirstSeen(rows) ==
    IF rows = <<>> THEN <<>>
    ELSE LET init == FirstSeen(SubSeq(rows, 1, Len(rows) - 1))
             last == rows[Len(rows)]
         IN IF Key(last) \in Keys(init) THEN init ELSE Append(init, last)

\* no extractor is called on its own while main runs
NoInput == [kind |-> "none"]
NotParsed == [done |-> FALSE, raised |-> FALSE, rows |-> <<>>]

Init ==
    /\ top \in 0..MaxQuota
    /\ latest \in 0..MaxQuota
    /\ call = 0
    /\ pc = "main"
    /\ page_no = 1
    /\ out = <<>>
    /\ seen = {}
    /\ batch = <<>>
    /\ listeners = {}
    /\ tasks = {}
    /\ browser = "none"
    /\ results = <<>>
    /\ launches = 0
    /\ closes = 0
    /\ fetches = 0
    /\ obs = 0
    /\ src = <<>>
    /\ enc = <<>>
    /\ decodeFailed = FALSE
    /\ input = NoInput
    /\ parsed = NotParsed

(* ------------------------------ actions -------------------------------- *)
\* Call with seen kept across the calls (a seen-set shared by the sort orders)
CallSharedSeen ==
    /\ pc = "main"
    /\ call < NumSorts
    /\ call' = call + 1
    /\ browser' = "open"
    /\ launches' = launches + 1
    /\ out' = <<>>
    /\ seen' = UNION { Keys(results[i]) : i \in 1..Len(results) }
    /\ page_no' = 1
    /\ batch' = <<>>
    /\ listeners' = {}
    /\ tasks' = {}
    /\ fetches' = 0
    /\ src' = <<>>
    /\ enc' = <<>>
    /\ decodeFailed' = FALSE
    /\ pc' = "while"
    /\ UNCHANGED <<top, latest, results, closes, obs>>
    /\ UNCHANGED parsevars

\* main calls fetch_sorted(sort, n): a new playwright session, browser,
\* context and page; page_no = 1, empty out and seen.
Call ==
    /\ pc = "main"
    /\ call < NumSorts
    /\ call' = call + 1
    /\ browser' = "open"
    /\ launches' = launches + 1
    /\ out' = <<>>
    /\ seen' = {}
    /\ page_no' = 1
    /\ batch' = <<>>
    /\ listeners' = {}
    /\ tasks' = {}
    /\ fetches' = 0
    /\ src' = <<>>
    /\ enc' = <<>>
    /\ decodeFailed' = FALSE
    /\ pc' = "while"
    /\ UNCHANGED <<top, latest, results, closes, obs>>
    /\ UNCHANGED parsevars

\* LoopCond with "<=" for "<" in the quota test
LoopCondOffByOne(o, q, p) == Len(o) <= q /\ p <= PageCeiling

\* LoopCond without the page ceiling
LoopCondNoCeiling(o, q, p) == Len(o) < q

\* while len(out) < n and page_no <= 50
LoopCond(o, q, p) == Len(o) < q /\ p <= PageCeiling

\* the loop body up to the await of page.goto: a fresh batch, the listener
\* registered, the navigation started
LoopEnter ==
    /\ pc = "while"
    /\ LoopCond(out, n, page_no)
    /\ batch' = <<>>
    /\ src' = <<>>
    /\ listeners' = listeners \cup {page_no}
    /\ fetches' = fetches + 1
    /\ decodeFailed' = FALSE
    /\ pc' = "goto"
    /\ UNCHANGED <<top, latest, call, page_no, out, seen, tasks, browser,
                   results, launches, closes, obs, enc>>
    /\ UNCHANGED parsevars

\* the loop condition is false: on to browser.close()
LoopExit ==
    /\ pc = "while"
    /\ ~LoopCond(out, n, page_no)
    /\ pc' = "close"
    /\ UNCHANGED <<top, latest, call, page_no, out, seen, batch, listeners,
                   tasks, browser, results, launches, closes, fetches, obs,
                   src, enc,
                   decodeFailed>>
    /\ UNCHANGED parsevars

\* a response event reaches the page while fetch_sorted awaits goto or sleep:
\* every registered on_response starts as a task of its own
Observe(resp) ==
    /\ pc \in {"goto", "sleep"}
    /\ listeners # {}
    /\ obs < MaxObs
    /\ page_no <= MaxObsPage
    /\ obs' = obs + 1
    /\ tasks' = tasks \cup
          { [id |-> obs + 1, age |-> 0, resp |-> resp, dom |-> FALSE] :
                l \in listeners }
    /\ UNCHANGED <<top, latest, call, pc, page_no, out, seen, batch,
                   listeners, browser, results, launches, closes, fetches,
                   src, enc,
                   decodeFailed>>
    /\ UNCHANGED parsevars

\* rows = await maybe_parse(resp); if rows: batch.extend(rows)
\* batch is looked up when the handler resumes: it is whatever list the
\* variable is bound to at that moment.
Extend(b, rows) == b \o rows

HandlerDone(t) ==
    /\ Suspended
    /\ t \in tasks
    /\ LET rows == maybe_parse(t.resp)
       IN /\ batch' = Extend(batch, rows)
          /\ src' = src \o [i \in 1..Len(rows) |-> t.age]
    /\ tasks' = tasks \ {t}
    /\ decodeFailed' = (decodeFailed \/ (t.age = 0 /\ DecodeFailure(t.resp)))
    /\ UNCHANGED <<top, latest, call, pc, page_no, out, seen, listeners,
                   browser, results, launches, closes, fetches, obs, enc>>
    /\ UNCHANGED parsevars

\* the body of a response of an earlier page can no longer be read once the
\* page has navigated on: resp.json() raises, maybe_parse returns []
BodyGone(t) ==
    /\ Suspended
    /\ t \in tasks
    /\ t.age > 0
    /\ tasks' = tasks \ {t}
    /\ UNCHANGED <<top, latest, call, pc, page_no, out, seen, batch,
                   listeners, browser, results, launches, closes, fetches,
                   obs, src, enc,
                   decodeFailed>>
    /\ UNCHANGED parsevars

\* await page.goto(url, wait_until="networkidle") returns
GotoOk ==
    /\ pc = "goto"
    /\ pc' = "sleep"
    /\ UNCHANGED <<top, latest, call, page_no, out, seen, batch, listeners,
                   tasks, browser, results, launches, closes, fetches, obs,
                   src, enc,
                   decodeFailed>>
    /\ UNCHANGED parsevars

\* await page.goto raises (timeout, network error): nothing in fetch_sorted
\* or main catches it; leaving the async with block stops the playwright
\* session, browser.close() is not reached and main returns nothing.
GotoRaise ==
    /\ pc = "goto"
    /\ pc' = "failed"
    /\ browser' = "stopped"
    /\ tasks' = {}
    /\ UNCHANGED <<top, latest, call, page_no, out, seen, batch, listeners,
                   results, launches, closes, fetches, obs, src, enc,
                   decodeFailed>>
    /\ UNCHANGED parsevars

\* RemoveListener that removes nothing
RemoveListenerNot(ls, p) == ls

\* page.remove_listener("response", on_response)
RemoveListener(ls, p) == ls \ {p}

\* asyncio.sleep(0.5) returns; the listener is removed; if not batch: the
\* markup path is taken (await page.content())
SleepDone ==
    /\ pc = "sleep"
    /\ listeners' = RemoveListener(listeners, page_no)
    /\ IF batch = <<>>
       THEN /\ pc' = "content"
            /\ tasks' = { IF t.age = 0 THEN [t EXCEPT !.dom = TRUE] ELSE t :
                            t \in tasks }
       ELSE /\ pc' = "dedup"
            /\ tasks' = tasks
    /\ UNCHANGED <<top, latest, call, page_no, out, seen, batch, browser,
                   results, launches, closes, fetches, obs, src, enc,
                   decodeFailed>>
    /\ UNCHANGED parsevars

\* html = await page.content(); batch = parse_from_dom(html)
ContentDone(rows) ==
    /\ pc = "content"
    /\ batch' = rows
    /\ src' = [i \in 1..Len(rows) |-> 0]
    /\ pc' = "dedup"
    /\ UNCHANGED <<top, latest, call, page_no, out, seen, listeners, tasks,
                   browser, results, launches, closes, fetches, obs, enc,
                   decodeFailed>>
    /\ UNCHANGED parsevars

\* PageExhausted that also stops on a batch that added nothing to out
PageExhaustedNothingNew(b, before, after) == b = <<>> \/ after = before

\* if not batch: break
PageExhausted(b, before, after) == b = <<>>

\* the de-dup and collect loop, then "if not batch: break", "page_no += 1"
\* (the handlers still pending are one page older; those already MaxLag
\* pages old will find their response body gone: BodyGone, with no effect)
Dedup ==
    /\ pc = "dedup"
    /\ LET acc == Accumulate(out, seen, batch, n)
       IN /\ out' = acc.out
          /\ seen' = acc.seen
    /\ enc' = FirstSeen(enc \o batch)
    /\ IF PageExhausted(batch, out, out')
       THEN pc' = "close" /\ page_no' = page_no /\ tasks' = tasks
       ELSE /\ pc' = "while"
            /\ page_no' = page_no + 1
            /\ tasks' = { [t EXCEPT !.age = t.age + 1] :
                            t \in { u \in tasks : u.age < MaxLag } }
    /\ UNCHANGED <<top, latest, call, batch, listeners, browser,
                   results, launches, closes, fetches, obs, src,
                   decodeFailed>>
    /\ UNCHANGED parsevars

\* await browser.close() returns, the playwright session ends, and
\* fetch_sorted returns out[:n] to main (its locals and its page are gone);
\* after the third call main prints.
Close ==
    /\ pc = "close"
    /\ browser' = "closed"
    /\ closes' = closes + 1
    /\ tasks' = {}
    /\ results' = Append(results, Take(out, n))
    /\ pc' = IF call = NumSorts THEN "done" ELSE "main"
    /\ page_no' = 1
    /\ out' = <<>>
    /\ seen' = {}
    /\ batch' = <<>>
    /\ listeners' = {}
    /\ fetches' = 0
    /\ src' = <<>>
    /\ enc' = <<>>
    /\ decodeFailed' = FALSE
    /\ UNCHANGED <<top, latest, call, launches, obs>>
    /\ UNCHANGED parsevars

Next ==
    \/ Call
    \/ LoopEnter
    \/ LoopExit
    \/ \E resp \in Responses : Observe(resp)
    \/ \E t \in tasks : HandlerDone(t)
    \/ \E t \in tasks : BodyGone(t)
    \/ GotoOk
    \/ GotoRaise
    \/ SleepDone
    \/ \E rows \in DomBatches : ContentDone(rows)
    \/ Dedup
    \/ Close

Spec == Init /\ [][Next]_vars

(* ------------------------------ claims --------------------------------- *)
\* where fetch_sorted is inside its while loop
InLoop == pc \in {"goto", "sleep", "content", "dedup"}

NoDupKeys(rows) ==
    \A i, j \in 1..Len(rows) : Key(rows[i]) = Key(rows[j]) => i = j

\* C1: the rows parsed from a response observed during page k are added only
\* to page k's batch: while page k is being fetched, every row of batch was
\* observed on page k, whenever the handlers finish.
C1_NoCrossPageRows == InLoop => \A i \in 1..Len(src) : src[i] = 0

\* C2: the markup is used as a page's batch only if no structured
\* observation of that page yielded a Record: no handler of a page that has
\* taken the markup path ever comes back with rows.
C2_MarkupOnlyWithoutStructured ==
    [][\A t \in tasks \ tasks' :
          (t.dom /\ maybe_parse(t.resp) # <<>>) => batch' = batch]_vars

\* C3: once out holds the quota n of Records (n = 0 included, before the
\* first page), no further page is fetched for that sort order.
C3_NoFetchAtQuota ==
    [][(pc \in {"while", "goto", "sleep", "content", "dedup", "close"}
          /\ Len(out) >= n) => fetches' # fetches + 1]_vars

\* C3 witness: the quota was reached after at least one page fetch and the
\* loop has been left
C3_Witness == pc = "close" /\ n > 0 /\ Len(out) >= n /\ fetches > 0

\* position inside one pass of the loop body
PcRank ==
    CASE pc = "while"   -> 0
      [] pc = "goto"    -> 1
      [] pc = "sleep"   -> 2
      [] pc = "content" -> 3
      [] pc = "dedup"   -> 4
      [] OTHER          -> 5

\* progress of the loop: the page counter, then the position in the body
Progress == 8 * page_no + PcRank

\* C4: a run of the fetch loop makes at most 50 page fetches (pages 1..50)
\* and ends: the k-th fetch is page k, every step of the loop moves it
\* forward in (page_no, position) or leaves it, a page is fetched only while
\* the quota is not reached, the page before was not empty and the counter is
\* at most 50, and the loop is left only with the quota reached, an empty
\* batch or the counter past 50.
C4_BoundedFetchLoop ==
    /\ [](fetches <= PageCeiling /\ page_no <= PageCeiling + 1)
    /\ [](InLoop => fetches = page_no)
    /\ [][(pc \in {"while", "goto", "sleep", "content", "dedup"}
             /\ <<pc, page_no>>' # <<pc, page_no>>)
            => (pc' \in {"close", "failed"} \/ Progress' > Progress)]_vars
    /\ [][(pc = "while" /\ pc' = "goto")
            => /\ Len(out) < n
               /\ page_no <= PageCeiling
               /\ (page_no > 1 => batch # <<>>)]_vars
    /\ [][(pc \in {"while", "dedup"} /\ pc' = "close")
            => \/ Len(out') >= n
               \/ batch' = <<>>
               \/ page_no' > PageCeiling]_vars

\* C4 witness: every one of the 50 pages gave a non-empty batch, the quota
\* was never reached, and the loop has stopped at the ceiling
C4_Witness ==
    /\ pc = "close"
    /\ page_no = PageCeiling + 1
    /\ fetches = PageCeiling
    /\ Len(out) < n

\* C5: fetch_sorted returns the first n Records of the deduplicated rows it
\* met, in the order met, never more than n; fewer than n only when the loop
\* stopped on an empty batch or past the ceiling, and then it returns every
\* distinct key met on the fetched pages.
C5_ReturnsFirstN ==
    /\ [][(pc = "close" /\ pc' \in {"main", "done"})
            => LET r == results'[call]
               IN /\ Len(results') = call
                  /\ r = Take(enc, n)
                  /\ Len(r) <= n
                  /\ Len(r) < n => r = enc]_vars
    /\ [][(pc \in {"while", "dedup"} /\ pc' = "close" /\ Len(out') < n)
            => (batch' = <<>> \/ page_no' > PageCeiling)]_vars

\* C5 witnesses: a call that returned its full quota of two rows, after a
\* call that returned fewer than its quota
C5_Witness ==
    /\ Len(results) = 2
    /\ top = 2
    /\ Len(results[1]) = 1
    /\ Len(results[2]) = 2

\* C6: at every point of the loop out holds no two Records with the same
\* key, seen is exactly the set of keys of out, and out lists the Records in
\* the order in which their keys were first met.
C6_AccumulationInvariant ==
    /\ NoDupKeys(out)
    /\ seen = Keys(out)
    /\ Len(out) <= Len(enc)
    /\ out = SubSeq(enc, 1, Len(out))

\* C6 witness: a batch holding a key twice, and a key already accumulated
\* from an earlier page, has been collected
C6_Witness ==
    /\ pc = "while"
    /\ page_no > 2
    /\ Len(out) = 2
    /\ ~NoDupKeys(batch)
    /\ out[1].pulls = "1B+"

\* the accumulation step run once, and a second time on the same batch
Once == Accumulate(out, seen, batch, n)
Twice == Accumulate(Once.out, Once.seen, batch, n)

\* C7 as stated: a second run of the accumulation step on the same batch
\* leaves out and seen as the first run left them, without duplicate keys.
C7_SecondRunChangesNothing ==
    pc = "dedup" => (Twice = Once /\ NoDupKeys(Twice.out))

\* C7 as amended: a second run never produces a duplicate key and never
\* changes the first n Records; it changes nothing at all when the first run
\* left out below the quota n (it can append one more Record when the first
\* run stopped at the quota).
C7_SecondRunBelowQuota ==
    pc = "dedup" =>
        /\ NoDupKeys(Twice.out)
        /\ Twice.seen = Keys(Twice.out)
        /\ Take(Twice.out, n) = Take(Once.out, n)
        /\ Len(Once.out) < n => Twice = Once

\* C7 witness: the first run appends a Record and stays below the quota
C7_Witness ==
    /\ pc = "dedup"
    /\ Len(Once.out) > Len(out)
    /\ Len(Once.out) < n

\* C8: a page.goto that raises does not make the run fail (the page would
\* degrade to the markup path and the run end with a result set).
C8_FailedFetchAbsorbed == pc # "failed"

\* sessions released so far: by browser.close(), or by the playwright
\* context manager when an exception leaves fetch_sorted
Released == closes + (IF browser = "stopped" THEN 1 ELSE 0)

\* C9: one browser session per run of main: opened once, reused by all three
\* sort orders, and released exactly once when the run has ended, on every
\* exit path.
C9_OneSessionPerRun ==
    /\ launches <= 1
    /\ Released <= 1
    /\ pc \in {"done", "failed"} => (launches = 1 /\ Released = 1)

\* C10: when a captured response of a page fails to decode, every other
\* observation captured for that page still gets its Records into the
\* page's batch: when the batch is collected, no handler of that page is
\* still holding Records.
C10_OtherObservationsReachBatch ==
    (pc = "dedup" /\ decodeFailed)
        => \A t \in tasks : t.age = 0 => maybe_parse(t.resp) = <<>>

C19_ListenerWindow ==
    /\ Cardinality(listeners) <= 1
    /\ pc \in {"goto", "sleep"} => listeners = {page_no}
    /\ pc \in {"while", "content", "dedup", "close", "main", "done"}
          => listeners = {}

\* C19 witness: the second page's listener is the only one registered
C19_Witness == pc = "sleep" /\ page_no = 2 /\ listeners = {2}

\* C20: a non-empty batch whose keys are all in seen leaves out and seen as
\* they are and does not stop the loop: page_no is incremented and, the
\* quota and the ceiling permitting, the next page is fetched; the loop
\* stops for exhaustion only on a batch that is empty before deduplication.
C20_SeenOnlyBatchContinues ==
    /\ [][(pc = "dedup" /\ pc' # "dedup" /\ batch # <<>>
             /\ Keys(batch) \subseteq seen)
            => /\ out' = out
               /\ seen' = seen
               /\ page_no' = page_no + 1
               /\ pc' = "while"]_vars
    /\ [][(pc = "dedup" /\ pc' = "close") => batch = <<>>]_vars
    /\ [][(pc = "while" /\ pc' # "while" /\ Len(out) < n
             /\ page_no <= PageCeiling)
            => (pc' = "goto" /\ fetches' = fetches + 1)]_vars

\* C20 witness: the page after a batch of seen keys only is being fetched
C20_Witness ==
    /\ pc = "goto"
    /\ page_no = 3
    /\ Len(out) = 1
    /\ Len(enc) = 1

(* ---------------------------- the extractors --------------------------- *)
(* split_owner_repo, parse_search_json and parse_from_dom as functions of  *)
(* their arguments.  A Python string is a sequence of tokens: "/" is a     *)
(* token of its own, the other tokens hold no "/"; the digits, "," and "-" *)
(* of a count are one token each.  A JSON value is tagged with its type.   *)
(***************************************************************************)
PNone == [t |-> "none", v |-> <<>>]
PStr(toks) == [t |-> "str", v |-> toks]
PInt(i) == [t |-> "int", v |-> i]
PList(items) == [t |-> "list", v |-> items]
\* a dict: its <<key, value>> pairs in insertion order
PDict(pairs) == [t |-> "dict", v |-> pairs]

\* Python truth value: None, "", 0, [] and {} are false
Truthy(x) ==
    CASE x.t = "none" -> FALSE
      [] x.t = "int"  -> x.v # 0
      [] OTHER        -> x.v # <<>>

\* x or y
Or(x, y) == IF Truthy(x) THEN x ELSE y

\* d.get(k) on a dict
Get(d, k) ==
    IF \E i \in 1..Len(d.v) : d.v[i][1] = k
    THEN d.v[CHOOSE i \in 1..Len(d.v) : d.v[i][1] = k][2]
    ELSE PNone

\* isinstance(d.get(k), list)
HasList(d, k) == Get(d, k).t = "list"

\* s.strip("/")
RECURSIVE LStrip(_)
LStrip(toks) ==
    IF toks # <<>> /\ Head(toks) = "/" THEN LStrip(Tail(toks)) ELSE toks

RECURSIVE RStrip(_)
RStrip(toks) ==
    IF toks # <<>> /\ toks[Len(toks)] = "/"
    THEN RStrip(SubSeq(toks, 1, Len(toks) - 1))
    ELSE toks

Strip(toks) == RStrip(LStrip(toks))

\* "/" in s
HasSlash(toks) == \E i \in 1..Len(toks) : toks[i] = "/"

\* index of the first "/" of s
FirstSlash(toks) ==
    CHOOSE i \in 1..Len(toks) :
        toks[i] = "/" /\ \A j \in 1..(i - 1) : toks[j] # "/"

\* split_owner_repo on two values that are strings or false: strip both,
\* split name once at its first "/" if it has one, else return (ns, name)
split_owner_repo(ns, name) ==
    LET a == Strip(Or(ns, PStr(<<>>)).v)
        b == Strip(Or(name, PStr(<<>>)).v)
    IN IF HasSlash(b)
       THEN <<SubSeq(b, 1, FirstSlash(b) - 1),
              SubSeq(b, FirstSlash(b) + 1, Len(b))>>
       ELSE <<a, b>>

\* the characters int() reads as decimal digits, with their values
DigitVal == [c \in {"0", "1", "2", "3", "4", "5", "6", "7", "8", "9"} |->
                CASE c = "0" -> 0 [] c = "1" -> 1 [] c = "2" -> 2
                  [] c = "3" -> 3 [] c = "4" -> 4 [] c = "5" -> 5
                  [] c = "6" -> 6 [] c = "7" -> 7 [] c = "8" -> 8
                  [] c = "9" -> 9]

DigitChar == <<"0", "1", "2", "3", "4", "5", "6", "7", "8", "9">>

IsDigit(c) == c \in DOMAIN DigitVal

\* s.replace(",", "")
StripCommas(toks) == SelectSeq(toks, LAMBDA c : c # ",")

RECURSIVE Decimal(_)
Decimal(toks) ==
    IF toks = <<>> THEN 0
    ELSE 10 * Decimal(SubSeq(toks, 1, Len(toks) - 1)) + DigitVal[toks[Len(toks)]]

\* the digits int() accepts after an optional "-"
Magnitude(toks) == IF toks # <<>> /\ Head(toks) = "-" THEN Tail(toks) ELSE toks

\* int(s) succeeds
IntParses(toks) ==
    /\ Magnitude(toks) # <<>>
    /\ \A i \in 1..Len(Magnitude(toks)) : IsDigit(Magnitude(toks)[i])

\* int(s) when it succeeds
IntOf(toks) ==
    IF toks[1] = "-" THEN 0 - Decimal(Magnitude(toks)) ELSE Decimal(toks)

RECURSIVE DigitsOf(_)
DigitsOf(i) ==
    IF i < 10 THEN <<DigitChar[i + 1]>>
    ELSE Append(DigitsOf(i \div 10), DigitChar[(i % 10) + 1])

\* str(x): a string is itself, an integer its decimal numeral, a list or a
\* dict a bracketed text that int() rejects
StrOf(x) ==
    CASE x.t = "str" -> x.v
      [] x.t = "int" -> IF x.v < 0 THEN <<"-">> \o DigitsOf(0 - x.v)
                        ELSE DigitsOf(x.v)
      [] x.t = "none" -> <<"None">>
      [] OTHER -> <<"[", "]">>

\* try: int(s.replace(",", "")) except: 0
ParseStars(toks) ==
    IF IntParses(StripCommas(toks)) THEN IntOf(StripCommas(toks)) ELSE 0

\* the service's origin, one token
Origin == "https://hub.docker.com"

\* link.startswith("/")
StartsWithSlash(toks) == toks # <<>> /\ Head(toks) = "/"

\* f"/r/{owner}/{repo}"
RepoPath(owner, repo) == <<"/", "r", "/">> \o owner \o <<"/">> \o repo

\* a RepoRow as the extractors build it, with the fields the contract of a
\* Record speaks of
Record(owner, name, stars, url) ==
    [owner |-> owner, name |-> name, stars |-> stars, url |-> url]

\* "if owner" alone
EmitsOwnerOnly(owner, repo) == owner # <<>>

\* if owner and repo
Emits(owner, repo) == owner # <<>> /\ repo # <<>>

\* the fields parse_search_json reads from one entry
NsOf(it) ==
    Or(Or(Or(Get(it, "namespace"), Get(it, "publisher")), Get(it, "orgname")),
       PStr(<<>>))

BaseNameOf(it) ==
    Or(Or(Or(Or(Get(it, "name"), Get(it, "slug")), Get(it, "repo_name")),
          Get(it, "display_name")), PStr(<<>>))

StarValOf(it) == Or(Or(Get(it, "star_count"), Get(it, "stars")), PInt(0))

OwnerRepoOf(it) == split_owner_repo(NsOf(it), BaseNameOf(it))

\* line 77: (href or "/r/owner/repo") if owner and repo else ""
LinkOf(it) ==
    LET owner == OwnerRepoOf(it)[1]
        repo  == OwnerRepoOf(it)[2]
    IN IF owner # <<>> /\ repo # <<>>
       THEN Or(Get(it, "href"), PStr(RepoPath(owner, repo)))
       ELSE PStr(<<>>)

\* the loop body raises AttributeError: .get on an entry that is no dict,
\* .strip on a namespace or name that is no string, .startswith on an href
\* that is no string
EntryRaises(it) ==
    \/ it.t # "dict"
    \/ NsOf(it).t # "str"
    \/ BaseNameOf(it).t # "str"
    \/ LinkOf(it).t # "str"

\* the Record the loop body builds from an entry on which it does not raise
EntryRow(it) ==
    LET link == LinkOf(it).v
    IN Record(OwnerRepoOf(it)[1], OwnerRepoOf(it)[2],
              ParseStars(StrOf(StarValOf(it))),
              IF StartsWithSlash(link) THEN <<Origin>> \o link ELSE link)

EntryEmits(it) == Emits(OwnerRepoOf(it)[1], OwnerRepoOf(it)[2])

RECURSIVE EntryRows(_)
EntryRows(cands) ==
    IF cands = <<>> THEN <<>>
    ELSE (IF EntryEmits(Head(cands)) THEN <<EntryRow(Head(cands))>> ELSE <<>>)
         \o EntryRows(Tail(cands))

TopKeys == <<"summaries", "results", "data", "items">>
NestedKeys == <<"summaries", "results", "items">>

\* the value of the first key of keys under which d holds a list, else cand
FirstList(d, keys, cand) ==
    IF \E i \in 1..Len(keys) : HasList(d, keys[i])
    THEN Get(d, keys[CHOOSE i \in 1..Len(keys) :
                        /\ HasList(d, keys[i])
                        /\ \A j \in 1..(i - 1) : ~HasList(d, keys[j])])
    ELSE cand

\* lines 48-53: over payload.values() in order, stop at the first value that
\* leaves candidates true
RECURSIVE NestedSearch(_, _, _)
NestedSearch(pairs, i, cand) ==
    IF i > Len(pairs) THEN cand
    ELSE LET v == pairs[i][2]
             c == IF v.t = "dict" THEN FirstList(v, NestedKeys, cand) ELSE cand
         IN IF Truthy(c) THEN c ELSE NestedSearch(pairs, i + 1, c)

\* lines 42-53
Candidates(payload) ==
    LET first == FirstList(payload, TopKeys, PNone)
    IN IF Truthy(first) THEN first ELSE NestedSearch(payload.v, 1, first)

\* parse_search_json on a dict: the rows it returns, or that it raised
parse_search_json(payload) ==
    LET cands == Candidates(payload)
    IN IF ~Truthy(cands) THEN [raised |-> FALSE, rows |-> <<>>]
       ELSE IF \E i \in 1..Len(cands.v) : EntryRaises(cands.v[i])
            THEN [raised |-> TRUE, rows |-> <<>>]
            ELSE [raised |-> FALSE, rows |-> EntryRows(cands.v)]

\* [0-9,]
IsCount(c) == IsDigit(c) \/ c = ","

\* the first index from i on that holds no blank (\s* and \s+ skip blanks)
RECURSIVE SkipBlanks(_, _)
SkipBlanks(text, i) ==
    IF i <= Len(text) /\ text[i] = " " THEN SkipBlanks(text, i + 1) ELSE i

\* the end of the longest run of [0-9,] that starts at i
RECURSIVE RunEnd(_, _)
RunEnd(text, i) ==
    IF i + 1 <= Len(text) /\ IsCount(text[i + 1]) THEN RunEnd(text, i + 1) ELSE i

\* Stars\.\s*([0-9,]+) matches with "Stars." at i
LabelFirstAt(text, i) ==
    /\ text[i] = "Stars."
    /\ SkipBlanks(text, i + 1) <= Len(text)
    /\ IsCount(text[SkipBlanks(text, i + 1)])

\* ([0-9,]+)\s+Stars matches with the count starting at i
CountFirstAt(text, i) ==
    /\ IsCount(text[i])
    /\ RunEnd(text, i) + 1 <= Len(text)
    /\ text[RunEnd(text, i) + 1] = " "
    /\ SkipBlanks(text, RunEnd(text, i) + 1) <= Len(text)
    /\ text[SkipBlanks(text, RunEnd(text, i) + 1)] \in {"Stars", "Stars."}

\* line 101: the leftmost match of the first pattern, else of the second,
\* else "0"
StarsStr(text) ==
    IF \E i \in 1..Len(text) : LabelFirstAt(text, i)
    THEN LET i == CHOOSE i \in 1..Len(text) :
                      /\ LabelFirstAt(text, i)
                      /\ \A j \in 1..(i - 1) : ~LabelFirstAt(text, j)
             b == SkipBlanks(text, i + 1)
         IN SubSeq(text, b, RunEnd(text, b))
    ELSE IF \E i \in 1..Len(text) : CountFirstAt(text, i)
    THEN LET i == CHOOSE i \in 1..Len(text) :
                      /\ CountFirstAt(text, i)
                      /\ \A j \in 1..(i - 1) : ~CountFirstAt(text, j)
         IN SubSeq(text, i, RunEnd(text, i))
    ELSE <<"0">>

\* the href without the one trailing "/" that /?$ allows
HrefBody(href) ==
    IF href[Len(href)] = "/" THEN SubSeq(href, 4, Len(href) - 1)
    ELSE SubSeq(href, 4, Len(href))

\* re.match(r"^/r/([^/]+)/([^/]+)/?$", href)
HrefMatches(href) ==
    /\ Len(href) >= 6
    /\ href[1] = "/" /\ href[2] = "r" /\ href[3] = "/"
    /\ HasSlash(HrefBody(href))
    /\ FirstSlash(HrefBody(href)) > 1
    /\ FirstSlash(HrefBody(href)) < Len(HrefBody(href))
    /\ ~HasSlash(SubSeq(HrefBody(href), FirstSlash(HrefBody(href)) + 1,
                        Len(HrefBody(href))))

\* m.group(1), m.group(2)
HrefOwner(href) == SubSeq(HrefBody(href), 1, FirstSlash(HrefBody(href)) - 1)
HrefRepo(href) ==
    SubSeq(HrefBody(href), FirstSlash(HrefBody(href)) + 1, Len(HrefBody(href)))

\* parse_from_dom on the anchors of the page, each with its href and its text
RECURSIVE parse_from_dom(_)
parse_from_dom(html) ==
    IF html = <<>> THEN <<>>
    ELSE LET a == Head(html)
         IN (IF HrefMatches(a.href)
             THEN <<Record(HrefOwner(a.href), HrefRepo(a.href),
                           ParseStars(StarsStr(a.text)),
                           <<Origin>> \o a.href)>>
             ELSE <<>>)
            \o parse_from_dom(Tail(html))

(* ------------------------- the extractors' inputs ----------------------- *)
\* longest candidate list, and most anchors on a page
MaxEntries == 2

Library == PStr(<<"library">>)
Nginx == PStr(<<"nginx">>)
Redis == PStr(<<"redis">>)

\* entries of a candidate list: well formed, with a combined or a many-part
\* name, without a name, with other keys, with counts and addresses of every
\* kind, and entries that are no dict or hold a name that is no string
EntryPool ==
    { PDict(<< <<"namespace", Library>>, <<"name", Nginx>>,
               <<"star_count", PStr(<<"1", "2", ",", "3", "4", "5">>)>>,
               <<"href", PStr(<<"/", "r", "/", "library", "/", "nginx">>)>> >>),
      PDict(<< <<"name", PStr(<<"library", "/", "nginx">>)>>,
               <<"stars", PStr(<<"a", "b", "c">>)>> >>),
      PDict(<< <<"namespace", PStr(<<"docker">>)>>,
               <<"name", PStr(<<"library", "/", "nginx">>)>> >>),
      PDict(<< <<"name", PStr(<<"a", "/", "b", "/", "c">>)>>,
               <<"star_count", PInt(0)>>, <<"stars", PInt(12)>> >>),
      PDict(<< <<"namespace", Library>> >>),
      PDict(<< <<"namespace", Library>>, <<"name", PStr(<<"/">>)>> >>),
      PDict(<< <<"namespace", Library>>, <<"name", Redis>>,
               <<"star_count", PStr(<<"-", "5">>)>> >>),
      PDict(<< <<"namespace", Library>>, <<"name", Redis>>,
               <<"href", PStr(<<"r", "/", "library", "/", "redis">>)>> >>),
      PDict(<< <<"publisher", PStr(<<"bitnami">>)>>, <<"slug", Redis>>,
               <<"stars", PList(<<PInt(7)>>)>>,
               <<"href", PStr(<<Origin, "/", "r", "/", "bitnami", "/", "redis">>)>> >>),
      PDict(<< <<"namespace", Library>>, <<"name", PInt(5)>> >>),
      PDict(<< <<"namespace", Library>>, <<"name", Nginx>>,
               <<"href", PInt(7)>> >>),
      Nginx }

EntryLists == UNION { [1..k -> EntryPool] : k \in 0..MaxEntries }

\* payload shapes: a candidate key at the top level, a candidate key inside a
\* top-level object, an empty list under an earlier key, no candidate at all
Payloads ==
    { PDict(<< <<"count", PInt(2)>>, <<k, PList(l)>> >>) :
          k \in {"summaries", "results", "data", "items"}, l \in EntryLists }
    \cup
    { PDict(<< <<"count", PInt(2)>>, <<"meta", PDict(<< <<k, PList(l)>> >>)>> >>) :
          k \in {"summaries", "results", "data", "items"}, l \in EntryLists }
    \cup
    { PDict(<< <<"summaries", PList(<<>>)>>, <<"results", PList(l)>> >>) :
          l \in EntryLists }
    \cup
    { PDict(<< <<"page", PDict(<< <<"items", PList(<<>>)>> >>)>>,
               <<"body", PDict(<< <<"total", PInt(1)>>, <<"results", PList(l)>> >>)>> >>) :
          l \in EntryLists }
    \cup
    { PDict(<< <<"count", PInt(0)>>, <<"next", PNone>> >>) }

Anchor(href, text) == [href |-> href, text |-> text]

\* anchors of a result page: repository links with and without a trailing
\* "/", with the count before and after its label, other links
AnchorPool ==
    { Anchor(<<"/", "r", "/", "library", "/", "nginx">>,
             <<"nginx", " ", "Pulls.", " ", "1B+", " ", "Stars.", " ",
               "1", "2", ",", "3", "4", "5">>),
      Anchor(<<"/", "r", "/", "library", "/", "redis", "/">>,
             <<"redis", " ", "5", "0", "0", " ", "Stars">>),
      Anchor(<<"/", "r", "/", "bitnami", "/", "redis">>, <<"redis">>),
      Anchor(<<"/", "r", "/", "bitnami", "/", "nginx">>,
             <<"Stars.", " ", ",">>),
      Anchor(<<"/", "r", "/", "library">>, <<"library">>),
      Anchor(<<"/", "r", "/", "a", "/", "b", "/", "c">>,
             <<"Stars.", "7">>),
      Anchor(<<"/", "r", "/", "a", "/", "/">>, <<>>),
      Anchor(<<"/", "search">>, <<"next">>),
      Anchor(<<>>, <<>>) }

Pages == UNION { [1..k -> AnchorPool] : k \in 0..MaxEntries }

\* arguments of split_owner_repo
NsPool ==
    { PNone, PStr(<<>>), Library, PStr(<<"docker">>),
      PStr(<<"/", "library", "/">>) }

NamePool ==
    { PNone, PStr(<<>>), Nginx, PStr(<<"library", "/", "nginx">>),
      PStr(<<"a", "/", "b", "/", "c">>), PStr(<<"/">>),
      PStr(<<"/", "nginx", "/">>), PStr(<<"library", "/", "/", "nginx">>) }

JsonInput(payload) == [kind |-> "json", arg |-> payload]
DomInput(html) == [kind |-> "dom", arg |-> html]
SplitInput(ns, name) == [kind |-> "split", arg |-> <<ns, name>>]

Inputs ==
    { JsonInput(p) : p \in Payloads }
    \cup { DomInput(h) : h \in Pages }
    \cup { SplitInput(a, b) : a \in NsPool, b \in NamePool }

(* --------------------- the extractors as a machine ---------------------- *)
\* One call of one extractor on one input; main is not running.
ParseInit ==
    /\ input \in Inputs
    /\ parsed = NotParsed
    /\ top = 0 /\ latest = 0 /\ call = 0 /\ pc = "done" /\ page_no = 1
    /\ out = <<>> /\ seen = {} /\ batch = <<>> /\ listeners = {}
    /\ tasks = {} /\ browser = "none" /\ results = <<>>
    /\ launches = 0 /\ closes = 0 /\ fetches = 0 /\ obs = 0
    /\ src = <<>> /\ enc = <<>> /\ decodeFailed = FALSE

ParseJson ==
    /\ input.kind = "json" /\ ~parsed.done
    /\ parsed' = [done |-> TRUE,
                  raised |-> parse_search_json(input.arg).raised,
                  rows |-> parse_search_json(input.arg).rows]
    /\ UNCHANGED <<input, fetchvars>>

ParseDom ==
    /\ input.kind = "dom" /\ ~parsed.done
    /\ parsed' = [done |-> TRUE, raised |-> FALSE,
                  rows |-> parse_from_dom(input.arg)]
    /\ UNCHANGED <<input, fetchvars>>

\* split_owner_repo alone; its pair is kept as one row of owner and name
ParseSplit ==
    /\ input.kind = "split" /\ ~parsed.done
    /\ parsed' = [done |-> TRUE, raised |-> FALSE,
                  rows |-> <<[owner |-> split_owner_repo(input.arg[1], input.arg[2])[1],
                              name |-> split_owner_repo(input.arg[1], input.arg[2])[2]]>>]
    /\ UNCHANGED <<input, fetchvars>>

ParseNext == ParseJson \/ ParseDom \/ ParseSplit

ParseSpec == ParseInit /\ [][ParseNext]_vars

(* ----------------------- claims on the extractors ----------------------- *)
\* an entry from which the loop body of parse_search_json builds a Record
Resolvable(it) == it.t = "dict" /\ ~EntryRaises(it) /\ EntryEmits(it)

\* d holds, under one of the four candidate keys, a list with such an entry
HoldsResolvable(d) ==
    \E k \in {"summaries", "results", "data", "items"} :
        /\ HasList(d, k)
        /\ \E i \in 1..Len(Get(d, k).v) : Resolvable(Get(d, k).v[i])

\* the payload holds it at the top level or one level deep
ResolvableWithinOneLevel(payload) ==
    \/ HoldsResolvable(payload)
    \/ \E j \in 1..Len(payload.v) :
          payload.v[j][2].t = "dict" /\ HoldsResolvable(payload.v[j][2])

JsonParsed == input.kind = "json" /\ parsed.done
DomParsed == input.kind = "dom" /\ parsed.done
SplitDone == input.kind = "split" /\ parsed.done

\* C12: for every payload in which one of the candidate keys summaries,
\* results, data, items holds a list at the top level or inside a top-level
\* object, parse_search_json returns a non-empty sequence whenever at least
\* one entry has both owner and name resolvable.
C12_NonEmptyWhenResolvable ==
    (JsonParsed /\ ~parsed.raised /\ ResolvableWithinOneLevel(input.arg))
        => parsed.rows # <<>>

\* C13: parse_search_json never raises, whatever the entries of the candidate
\* list are (entries that are no mapping, owner, name or address fields that
\* are no strings), and a malformed entry does not keep the well-formed
\* entries of the same payload from being emitted.
C13_NeverRaises ==
    JsonParsed =>
        /\ ~parsed.raised
        /\ LET cands == Candidates(input.arg)
           IN Truthy(cands) =>
                \A i \in 1..Len(cands.v) :
                    Resolvable(cands.v[i]) =>
                        \E j \in 1..Len(parsed.rows) :
                            parsed.rows[j] = EntryRow(cands.v[i])

\* the arguments of split_owner_repo as strings (None reads as "")
NsArg == Or(input.arg[1], PStr(<<>>)).v
NameArg == Or(input.arg[2], PStr(<<>>)).v

\* a combined "namespace/name": text on both sides of a separator
Combined(name) ==
    HasSlash(name) /\ Head(name) # "/" /\ name[Len(name)] # "/"

\* C14: a name that holds a combined "namespace/name" is split at its first
\* separator, the owner being the explicit namespace when there is one and
\* the part before the separator otherwise; without a separator in the name,
\* (namespace, name) is returned unchanged.
C14_SplitPrefersNamespace ==
    SplitDone =>
        /\ Combined(NameArg) =>
              /\ parsed.rows[1].owner =
                    (IF NsArg # <<>> THEN NsArg
                     ELSE SubSeq(NameArg, 1, FirstSlash(NameArg) - 1))
              /\ parsed.rows[1].name =
                    SubSeq(NameArg, FirstSlash(NameArg) + 1, Len(NameArg))
        /\ ~HasSlash(NameArg) =>
              parsed.rows[1].owner = NsArg /\ parsed.rows[1].name = NameArg

\* C15: the name of a Record emitted by either extractor, and the name that
\* split_owner_repo returns, never contains "/", also for name fields that
\* hold more than one separator.
C15_NameHasNoSeparator ==
    parsed.done =>
        \A j \in 1..Len(parsed.rows) : ~HasSlash(parsed.rows[j].name)

\* C16: every Record emitted by parse_search_json or parse_from_dom has a
\* non-empty owner and a non-empty name; an entry whose owner or name is
\* empty after resolution yields no Record.
C16_OwnerAndNameNonEmpty ==
    (JsonParsed \/ DomParsed) =>
        \A j \in 1..Len(parsed.rows) :
            parsed.rows[j].owner # <<>> /\ parsed.rows[j].name # <<>>

\* parse_search_json returned Records and dropped an entry of the list
C16_Witness ==
    /\ JsonParsed /\ ~parsed.raised
    /\ parsed.rows # <<>>
    /\ Len(parsed.rows) < Len(Candidates(input.arg).v)

\* C17: the stars of every emitted Record is an integer >= 0; grouping commas
\* are stripped, unparseable or absent input gives 0.
C17_StarsNonNegative ==
    (JsonParsed \/ DomParsed) =>
        \A j \in 1..Len(parsed.rows) : parsed.rows[j].stars >= 0

\* an absolute address: it starts with the origin
IsAbsolute(url) == url # <<>> /\ Head(url) = Origin

\* C18: the url of every emitted Record is absolute: a relative address of
\* an entry is resolved against https://hub.docker.com, and without an
\* address the url is the origin followed by /r/owner/name.
C18_UrlAbsolute ==
    (JsonParsed \/ DomParsed) =>
        \A j \in 1..Len(parsed.rows) : IsAbsolute(parsed.rows[j].url)

====
